---- MODULE Spec2Model ----
(***************************************************************************)
(* Model of components/esp_pm/pm_impl.c (Zephyr port of the ESP power      *)
(* manager): the lock-driven mode arbiter (esp_pm_impl_switch_mode), the   *)
(* switch engine (do_switch, on_freq_update), the configurator             *)
(* (esp_pm_configure) and the idle/ISR hook protocol, on two CPUs.         *)
(*                                                                         *)
(* Every CPU c runs two contexts: <<c, "task">> (thread level) and         *)
(* <<c, "isr">> (interrupt level).  The interrupt context pre-empts the    *)
(* task context of its CPU whenever interrupts are enabled there, and the  *)
(* task context does not run again before the interrupt returns.           *)
(*                                                                         *)
(* ENTER_CRITICAL / EXIT_CRITICAL are irq_lock() / irq_unlock() with the   *)
(* key kept in the one shared variable s_switch_lock.  On the two-CPU      *)
(* build that shares these statics irq_lock() masks the interrupts of the  *)
(* calling CPU and takes the kernel's recursive global lock, so it is      *)
(* modelled as: wait until the lock is free or already held by this CPU,   *)
(* mask the local interrupts, return the previous interrupt level.         *)
(*                                                                         *)
(* A critical section that calls nothing is one step.  abort() ends the    *)
(* run of every context; assert(false) does so in a build with assertions  *)
(* and does nothing in a build without them (NDEBUG), the build line 260   *)
(* provides for with its unused attribute.                                 *)
(***************************************************************************)
EXTENDS Integers, Naturals, Sequences, FiniteSets, TLC

VARIABLES
    s_mode,                 \* line 94
    s_is_switching,         \* line 96
    s_mode_lock_counts,     \* line 98
    s_mode_mask,            \* line 100
    s_core_idle,            \* line 105
    s_rtos_lock_handle,     \* line 110: TRUE once created (non-NULL)
    s_cpu_freq_by_mode,     \* line 115: freq_mhz of each mode's config
    s_light_sleep_en,       \* line 118
    s_config_changed,       \* line 125
    s_need_update_ccompare, \* line 146
    s_ccount_div,           \* line 151
    s_ccount_mul,           \* line 152
    crit,                   \* s_switch_lock (line 91) and the state behind
                            \* irq_lock(): each CPU's interrupt level, the
                            \* holder of the global lock and its depth
    xint,                   \* per CPU: cross-core interrupt pending
    cpu_freq,               \* the hardware's current CPU frequency (MHz)
    rtos_count,             \* per CPU: acquisitions of s_rtos_lock_handle[c]
    aborted,                \* abort() / failed assert: the system is dead
    fr,                     \* per context: program counter and locals
    ops,                    \* entry-point calls and interrupts so far
    ccompare,               \* per CPU: CCOMPARE - CCOUNT, the cycles from now
                            \* to the CPU's next tick interrupt
    xt_tick_divisor,        \* _xt_tick_divisor, line 364
    api,                    \* the last call of esp_pm_configure or
                            \* esp_pm_get_configuration: argument and results
    timer,                  \* one call of update_ccompare on 32-bit words:
                            \* the CCOUNT and CCOMPARE it reads, the scale
                            \* factors and tick divisor, and the register
                            \* CCOMPARE
    idle_key,               \* per CPU: the interrupt state in force when
                            \* esp_pm_impl_idle_hook was last entered, read
                            \* only by the properties
    hist                    \* history of the run, read only by the properties

vars == <<s_mode, s_is_switching, s_mode_lock_counts, s_mode_mask,
          s_core_idle, s_rtos_lock_handle, s_cpu_freq_by_mode,
          s_light_sleep_en, s_config_changed, s_need_update_ccompare,
          s_ccount_div, s_ccount_mul, crit, xint, cpu_freq, rtos_count,
          aborted, fr, ops, ccompare, xt_tick_divisor, api, timer, idle_key,
          hist>>

arbiter_vars == <<s_mode_lock_counts, s_mode_mask>>
switch_vars == <<s_mode, s_is_switching, s_config_changed>>
table_vars == <<s_cpu_freq_by_mode, s_light_sleep_en>>
ccompare_vars == <<s_need_update_ccompare, s_ccount_div, s_ccount_mul, xint>>
hook_vars == <<s_core_idle, s_rtos_lock_handle, rtos_count>>
timer_vars == <<ccompare, xt_tick_divisor>>

----------------------------------------------------------------------------
(* Program constants *)

PM_MODE_LIGHT_SLEEP == 0
PM_MODE_APB_MIN == 1
PM_MODE_APB_MAX == 2
PM_MODE_CPU_MAX == 3
PM_MODE_COUNT == 4

CONFIG_ESP_DEFAULT_CPU_FREQ_MHZ == 160
XTAL_FREQ_MHZ == 40
REF_CLK_DIV_MIN == 10
REF_CLK_FREQ == 1000000
CCOMPARE_MIN_CYCLES_IN_FUTURE == 1000
XT_TICK_PER_SEC == 10000

\* esp_err_t, esp_err.h
ESP_OK == 0
ESP_ERR_NO_MEM == 257
ESP_ERR_INVALID_ARG == 258

MHZ(x) == x * 1000000

(* Bounds of the model *)

\* size_t (line 98) is unsigned, ++ and -- wrap modulo its range: 2^32 on
\* the target, this smaller range here.
SIZE_T_RANGE == 256
\* CCOMPARE_UPDATE_TIMEOUT is 1000000 polls in the source (line 52); the
\* model counts the polls of the rendezvous up to this smaller budget.
CCOMPARE_UPDATE_TIMEOUT == 3
\* A LOCK is issued only while the mode's count is below MaxCount.
MaxCount == 2
\* Entry-point calls (esp_pm_impl_switch_mode, esp_pm_impl_idle_hook,
\* esp_pm_configure, esp_pm_get_configuration) and interrupts other than
\* the cross-core one.
MaxOps == 4
\* CCOMPARE - CCOUNT of every CPU at boot: half a tick at the default
\* frequency.
InitialCcompare == 8000

CPUS == {0, 1}
Levels == {"task", "isr"}
Ctx == CPUS \X Levels
Modes == PM_MODE_LIGHT_SLEEP .. (PM_MODE_COUNT - 1)
\* esp_pm_impl_get_mode (lines 163-176): the modes a lock kind maps to.
esp_pm_impl_get_mode == {PM_MODE_CPU_MAX, PM_MODE_APB_MAX, PM_MODE_APB_MIN}
Ops == {"LOCK", "UNLOCK"}

\* The configurations the model hands to esp_pm_configure.
CfgInputs == [min_freq_mhz : {40, 240}, max_freq_mhz : {160},
              light_sleep_enable : BOOLEAN]
\* The configurations the configurator on its own is called with: crystal
\* dividers with a reference-clock divider below and above REF_CLK_DIV_MIN,
\* the PLL frequencies and frequencies the clock driver cannot produce.
CfgDomain == [min_freq_mhz : {5, 10, 30, 40, 80, 160, 240},
              max_freq_mhz : {40, 80, 100, 160, 240},
              light_sleep_enable : BOOLEAN]
\* What sleep_modem_configure returns to esp_pm_sleep_configure.
SleepResults == {ESP_OK, ESP_ERR_NO_MEM}
\* *vconfig before esp_pm_get_configuration has written it.
NoConfig == [min_freq_mhz |-> 0, max_freq_mhz |-> 0,
             light_sleep_enable |-> FALSE]

Other(c) == 1 - c

----------------------------------------------------------------------------
(* Bit operations on the mode mask (uint32_t, only bits 0..3 are used) *)

BIT(i) == 2 ^ i
HasBit(mask, i) == (mask \div BIT(i)) % 2 = 1
SetBit(mask, i) == IF HasBit(mask, i) THEN mask ELSE mask + BIT(i)
ClearBit(mask, i) == IF HasBit(mask, i) THEN mask - BIT(i) ELSE mask

MIN(a, b) == IF a < b THEN a ELSE b
MAX(a, b) == IF a > b THEN a ELSE b

----------------------------------------------------------------------------
(* Contexts: program counter and the locals of the running functions *)

\* pc: where the context is; ret: where esp_pm_impl_switch_mode returns to;
\* new_mode: do_switch's argument; config_changed, old_freq, new_freq:
\* locals of do_switch; timeout: local of on_freq_update.
\* done: what the running do_switch has called so far of on_freq_update
\* and rtc_clk_cpu_freq_set_config_fast, in the order of the calls.
Frame(pc) == [pc |-> pc, ret |-> "none", new_mode |-> PM_MODE_LIGHT_SLEEP,
              config_changed |-> FALSE, old_freq |-> 0, new_freq |-> 0,
              timeout |-> 0, done |-> <<>>]

\* The program counters inside do_switch.
SwitchPcs == {"ds_guard", "ds_read", "ofu_publish", "ofu_spin", "hw_set",
              "ds_fin"}
\* Between s_is_switching = true (line 427) and its reset (line 470).
BlockPcs == SwitchPcs \ {"ds_guard"}
\* At rest: no function of the module is on the context's stack.
RestPcs == {"ready", "off", "idle_wait", "halted", "isr_body"}

\* A context runs unless the system aborted; a task context does not run
\* while an interrupt is being served on its CPU.
Runnable(c, k) ==
    /\ ~aborted
    /\ k = "task" => fr[<<c, "isr">>].pc = "off"

At(c, k, pc) == Runnable(c, k) /\ fr[<<c, k>>].pc = pc

\* Return from esp_pm_impl_switch_mode (or from do_switch, its tail call).
Return(f) == Frame(f.ret)

\* The history when a call of esp_pm_impl_switch_mode starts: it overlaps
\* the calls that have not returned yet.
NotifyStarts(h) ==
    [h EXCEPT !.overlap = @ \/ \E x \in Ctx : fr[x].pc \in SwitchPcs,
              !.calls = TRUE]

----------------------------------------------------------------------------
(* ENTER_CRITICAL / EXIT_CRITICAL, lines 88-91.  They are functions of the *)
(* lock state L = crit, so that a critical section that calls nothing is   *)
(* one step: EXIT_CRITICAL(..ENTER_CRITICAL(L, c).., c).                   *)

CanEnter(L, c) == L.owner \subseteq {c}

\* *lock_ptr = irq_lock()
ENTER_CRITICAL(L, c) ==
    [L EXCEPT !.s_switch_lock = L.intlevel[c],
              !.intlevel[c] = "locked",
              !.owner = {c},
              !.depth = @ + 1]

\* irq_unlock(*lock_ptr)
EXIT_CRITICAL(L, c) ==
    LET depth == IF L.depth > 0 THEN L.depth - 1 ELSE 0
    IN  [L EXCEPT !.intlevel[c] = L.s_switch_lock,
                  !.depth = depth,
                  !.owner = IF depth = 0 THEN {} ELSE @]

----------------------------------------------------------------------------
(* Clock driver *)

\* rtc_clk_cpu_freq_mhz_to_config: the PLL frequencies, or an integer
\* divider of the crystal.
rtc_clk_cpu_freq_mhz_to_config(mhz) ==
    \/ mhz \in {80, 160, 240}
    \/ mhz > 0 /\ mhz <= XTAL_FREQ_MHZ /\ XTAL_FREQ_MHZ % mhz = 0

----------------------------------------------------------------------------
(* ModeArbiter *)

\* The arbiter with > where the source compares with >=.
get_lowest_allowed_mode_gt(mode_mask, light_sleep_en) ==
    IF mode_mask > BIT(PM_MODE_CPU_MAX) THEN PM_MODE_CPU_MAX
    ELSE IF mode_mask > BIT(PM_MODE_APB_MAX) THEN PM_MODE_APB_MAX
    ELSE IF mode_mask > BIT(PM_MODE_APB_MIN) \/ ~light_sleep_en
         THEN PM_MODE_APB_MIN
    ELSE PM_MODE_LIGHT_SLEEP

\* get_lowest_allowed_mode, lines 294-306
get_lowest_allowed_mode(mode_mask, light_sleep_en) ==
    IF mode_mask >= BIT(PM_MODE_CPU_MAX) THEN PM_MODE_CPU_MAX
    ELSE IF mode_mask >= BIT(PM_MODE_APB_MAX) THEN PM_MODE_APB_MAX
    ELSE IF mode_mask >= BIT(PM_MODE_APB_MIN) \/ ~light_sleep_en
         THEN PM_MODE_APB_MIN
    ELSE PM_MODE_LIGHT_SLEEP

\* lines 315-319: the new count and the value of the local `count`
CountAfter(count, op) ==
    IF op = "LOCK" THEN (count + 1) % SIZE_T_RANGE
    ELSE (count - 1) % SIZE_T_RANGE
CountLocal(count, op) ==
    IF op = "LOCK" THEN (count + 1) % SIZE_T_RANGE ELSE count

\* A mode mask whose bits are set but never cleared.
MaskAfterNeverCleared(mask, mode, count, op) ==
    IF op = "LOCK" /\ (count + 1) % SIZE_T_RANGE = 1 THEN SetBit(mask, mode)
    ELSE mask

\* An arbiter that asks for a switch at every call.
NeedSwitchAlways(count, op) == count = count

\* lines 320-327
NeedSwitch(count, op) == CountLocal(count, op) = 1
MaskAfter(mask, mode, count, op) ==
    IF NeedSwitch(count, op)
    THEN IF op = "LOCK" THEN SetBit(mask, mode) ELSE ClearBit(mask, mode)
    ELSE mask

\* esp_pm_impl_switch_mode(mode, op, now), lines 308-344, called by context
\* <<c, k>> with lock state L and returning to pc ret: its critical section
\* (lines 313-340) is one step, after which the context is in do_switch
\* (line 342) or has returned.
esp_pm_impl_switch_mode(c, k, mode, op, ret, L) ==
    LET count == s_mode_lock_counts[mode]
        mask == MaskAfter(s_mode_mask, mode, count, op)
        need_switch == NeedSwitch(count, op)
        new_mode == IF need_switch
                    THEN get_lowest_allowed_mode(mask, s_light_sleep_en)
                    ELSE s_mode
    IN  /\ CanEnter(L, c)
        /\ crit' = EXIT_CRITICAL(ENTER_CRITICAL(L, c), c)
        /\ s_mode_lock_counts' =
               [s_mode_lock_counts EXCEPT ![mode] = CountAfter(count, op)]
        /\ s_mode_mask' = mask
        /\ fr' = [fr EXCEPT ![<<c, k>>] =
                     IF need_switch
                     THEN [Frame("ds_guard") EXCEPT !.ret = ret,
                                                    !.new_mode = new_mode]
                     ELSE Frame(ret)]
        /\ hist' = [NotifyStarts(hist) EXCEPT
                       !.underflow = @ \/ (op = "UNLOCK" /\ count = 0),
                       !.cfg_stale = @ /\ ~need_switch]

\* A direct call esp_pm_impl_switch_mode(mode, op, now) from a task
\* (pc "ready") or from the body of an interrupt handler (pc "isr_body").
Notify(c, k, mode, op) ==
    LET here == IF k = "task" THEN "ready" ELSE "isr_body"
    IN  /\ At(c, k, here)
        /\ s_rtos_lock_handle[c]
        /\ ops < MaxOps
        /\ op = "LOCK" =>
               \/ s_mode_lock_counts[mode] < MaxCount
               \/ s_mode_lock_counts[mode] = SIZE_T_RANGE - 1
        /\ op = "UNLOCK" => s_mode_lock_counts[mode] <= MaxCount
        /\ esp_pm_impl_switch_mode(c, k, mode, op, here, crit)
        /\ ops' = ops + 1
        /\ UNCHANGED <<timer_vars, api, timer, idle_key>>
        /\ UNCHANGED <<switch_vars, table_vars, ccompare_vars, hook_vars,
                       cpu_freq, aborted>>

----------------------------------------------------------------------------
(* SwitchEngine: do_switch, lines 407-472 *)

\* The re-entry guard with s_is_switching ignored.
DsGuardBranchNoFlag(is_switching, new_mode, mode) ==
    IF new_mode = mode THEN "same" ELSE "claim"

\* lines 413-427: what one pass of the re-entry guard loop decides
DsGuardBranch(is_switching, new_mode, mode) ==
    IF is_switching THEN "spin"
    ELSE IF new_mode = mode THEN "same"
    ELSE "claim"

\* lines 411-430: one pass of the re-entry guard loop
DsGuard(c, k) ==
    LET f == fr[<<c, k>>]
        branch == DsGuardBranch(s_is_switching, f.new_mode, s_mode)
    IN  /\ At(c, k, "ds_guard")
        /\ CanEnter(crit, c)
        /\ crit' = EXIT_CRITICAL(ENTER_CRITICAL(crit, c), c)
        /\ IF branch = "spin"
           THEN \* lines 416-421, and the loop starts over
                /\ s_need_update_ccompare' =
                       [s_need_update_ccompare EXCEPT ![c] = FALSE]
                /\ UNCHANGED <<switch_vars, fr>>
           ELSE IF branch = "same"
           THEN \* lines 423-425
                /\ fr' = [fr EXCEPT ![<<c, k>>] = Return(f)]
                /\ UNCHANGED <<switch_vars, s_need_update_ccompare>>
           ELSE \* lines 427-430
                /\ s_is_switching' = TRUE
                /\ s_config_changed' = FALSE
                /\ fr' = [fr EXCEPT ![<<c, k>>] =
                             [f EXCEPT !.pc = "ds_read",
                                       !.config_changed = s_config_changed]]
                /\ UNCHANGED <<s_mode, s_need_update_ccompare>>
        /\ UNCHANGED <<timer_vars, api, timer, idle_key>>
        /\ UNCHANGED <<arbiter_vars, table_vars, s_ccount_div, s_ccount_mul,
                       xint, hook_vars, cpu_freq, aborted, ops, hist>>

\* The direction of the switch, inverted.
switch_up(new_ticks_per_us, old_ticks_per_us) ==
    new_ticks_per_us > old_ticks_per_us

\* line 445
switch_down(new_ticks_per_us, old_ticks_per_us) ==
    new_ticks_per_us < old_ticks_per_us

\* The old configuration taken from the table whatever config_changed is.
old_config_from_table(config_changed, by_mode, hardware) == by_mode

\* lines 435-439: the old configuration is the table's entry of the
\* current mode (by_mode), or what rtc_clk_cpu_freq_get_config reads from
\* the hardware once the table has changed.
old_config(config_changed, by_mode, hardware) ==
    IF ~config_changed THEN by_mode ELSE hardware

\* lines 432-448: read the new and the old configuration, outside the
\* critical section.
DsRead(c, k) ==
    LET f == fr[<<c, k>>]
        new == s_cpu_freq_by_mode[f.new_mode]
        old == old_config(f.config_changed, s_cpu_freq_by_mode[s_mode],
                          cpu_freq)
    IN  /\ At(c, k, "ds_read")
        /\ fr' = [fr EXCEPT ![<<c, k>>] =
                     [f EXCEPT !.new_freq = new, !.old_freq = old,
                               !.pc = IF new = old THEN "ds_fin"
                                      ELSE IF switch_down(new, old)
                                      THEN "ofu_publish"
                                      ELSE "hw_set"]]
        /\ UNCHANGED <<timer_vars, api, timer, idle_key>>
        /\ UNCHANGED <<arbiter_vars, switch_vars, table_vars, ccompare_vars,
                       hook_vars, crit, cpu_freq, aborted, ops, hist>>

\* line 364: the cycles between two ticks at ticks_per_us MHz
TickDivisor(ticks_per_us) == MHZ(ticks_per_us) \div XT_TICK_PER_SEC

\* lines 488-497: CCOMPARE - CCOUNT after update_ccompare found it at diff.
\* The values are uint32_t; diff * mul stays far below 2^32 here, and a
\* diff the model holds is below 2^31, so that line 490 is diff >= 1000.
new_ccompare(diff, mul, div, tick_divisor) ==
    IF diff - CCOMPARE_MIN_CYCLES_IN_FUTURE >= 0
    THEN LET diff_scaled == (diff * mul + div - 1) \div div
         IN  IF diff_scaled < tick_divisor THEN diff_scaled ELSE diff
    ELSE diff

\* update_ccompare() on CPU c, lines 482-501, reading mul and div from
\* s_ccount_mul and s_ccount_div and tick_divisor from _xt_tick_divisor.
\* The division of line 492 by a zero s_ccount_div is undefined: the
\* divide instruction traps, or the register is left as it is.
update_ccompare(c, mul, div, tick_divisor) ==
    IF ccompare[c] - CCOMPARE_MIN_CYCLES_IN_FUTURE >= 0 /\ div = 0
    THEN /\ aborted' \in BOOLEAN
         /\ UNCHANGED ccompare
    ELSE /\ ccompare' = [ccompare EXCEPT ![c] =
                             new_ccompare(@, mul, div, tick_divisor)]
         /\ UNCHANGED aborted

\* uint32_t: a 32-bit word as its two 16-bit halves <<high, low>>, with the
\* arithmetic of the C operators on unsigned int (modulo 2^32).
HALF_WORD == 65536
\* the word of value n, 0 <= n < 2^31
U32(n) == <<n \div HALF_WORD, n % HALF_WORD>>
\* a + b
u32_add(a, b) ==
    LET low == a[2] + b[2]
    IN  <<(a[1] + b[1] + low \div HALF_WORD) % HALF_WORD, low % HALF_WORD>>
\* a - b
u32_sub(a, b) ==
    LET low == a[2] - b[2]
    IN  <<(a[1] - b[1] - (IF low < 0 THEN 1 ELSE 0)) % HALF_WORD,
          low % HALF_WORD>>
\* a * m for a word m below 2^15
u32_mul(a, m) ==
    LET low == a[2] * m
    IN  <<(a[1] * m + low \div HALF_WORD) % HALF_WORD, low % HALF_WORD>>
\* a / d for a word d below 2^15, d # 0
u32_div(a, d) ==
    <<a[1] \div d, ((a[1] % d) * HALF_WORD + a[2]) \div d>>
\* a < b
u32_lt(a, b) == a[1] < b[1] \/ (a[1] = b[1] /\ a[2] < b[2])
\* UINT32_MAX / 2, line 490
UINT32_MAX_HALF == <<32767, 65535>>

\* update_ccompare, lines 488-497, on the registers: the CCOMPARE it leaves
\* behind, for the CCOUNT and CCOMPARE it reads and a non-zero div.
ccompare_register(ccount, reg, mul, div, tick_divisor) ==
    IF u32_lt(u32_sub(u32_sub(reg, U32(CCOMPARE_MIN_CYCLES_IN_FUTURE)), ccount),
              UINT32_MAX_HALF)
    THEN LET diff == u32_sub(reg, ccount)
             diff_scaled ==
                 u32_div(u32_add(u32_mul(diff, mul), U32(div - 1)), div)
         IN  IF u32_lt(diff_scaled, U32(tick_divisor))
             THEN u32_add(ccount, diff_scaled)
             ELSE reg
    ELSE reg

\* One call of update_ccompare: timer.ccount and timer.ccompare are what
\* lines 488 and 489 read, timer.reg is the register CCOMPARE.
RunUpdateCcompare ==
    /\ timer.pc = "call"
    /\ timer' = [timer EXCEPT
                     !.pc = "done",
                     !.reg = ccompare_register(timer.ccount, timer.ccompare,
                                               timer.mul, timer.div,
                                               timer.tick_divisor)]
    /\ UNCHANGED <<arbiter_vars, switch_vars, table_vars, ccompare_vars,
                   hook_vars, timer_vars, crit, cpu_freq, aborted, fr, ops,
                   api, idle_key, hist>>

\* The calling CPU in the place of the other one.
this_core_id(core_id) == core_id

\* line 381
other_core_id(core_id) == IF core_id = 0 THEN 1 ELSE 0

\* on_freq_update, lines 352-386: set the tick divisor, publish the scale
\* factor, rescale this CPU's CCOMPARE, ask the other CPU to rescale its
\* own.
OfuPublish(c, k) ==
    LET f == fr[<<c, k>>]
        done == Append(f.done, "on_freq_update")
    IN  /\ At(c, k, "ofu_publish")
        /\ xt_tick_divisor' = TickDivisor(f.new_freq)
        /\ IF s_rtos_lock_handle[c]
           THEN /\ s_ccount_div' = f.old_freq
                /\ s_ccount_mul' = f.new_freq
                /\ update_ccompare(c, f.new_freq, f.old_freq,
                                   TickDivisor(f.new_freq))
                /\ s_need_update_ccompare' =
                       [s_need_update_ccompare EXCEPT
                           ![other_core_id(c)] = TRUE]
                /\ xint' = [xint EXCEPT ![other_core_id(c)] = TRUE]
                /\ fr' = [fr EXCEPT ![<<c, k>>] =
                             [f EXCEPT !.pc = "ofu_spin", !.timeout = 0,
                                       !.done = done]]
           ELSE /\ fr' = [fr EXCEPT ![<<c, k>>] =
                             [f EXCEPT !.pc = IF switch_down(f.new_freq,
                                                             f.old_freq)
                                              THEN "hw_set" ELSE "ds_fin",
                                       !.done = done]]
                /\ UNCHANGED <<ccompare_vars, ccompare, aborted>>
        /\ UNCHANGED <<api, timer, idle_key>>
        /\ UNCHANGED <<arbiter_vars, switch_vars, table_vars, hook_vars,
                       crit, cpu_freq, ops, hist>>

\* line 388: ++timeout == CCOMPARE_UPDATE_TIMEOUT
SpinTimedOut(timeout) == timeout + 1 = CCOMPARE_UPDATE_TIMEOUT

\* lines 387-395: one poll of the other CPU's flag.  When the poll count
\* reaches the timeout, assert(false) ends the run in a build with
\* assertions; in a build without them the loop goes on polling (the model
\* stops counting there).
OfuSpin(c, k) ==
    LET f == fr[<<c, k>>]
    IN  /\ At(c, k, "ofu_spin")
        /\ IF s_need_update_ccompare[other_core_id(c)]
           THEN \* lines 388-390
                /\ IF SpinTimedOut(f.timeout)
                   THEN aborted' \in BOOLEAN
                   ELSE aborted' = FALSE
                /\ fr' = [fr EXCEPT ![<<c, k>>].timeout =
                             MIN(@ + 1, CCOMPARE_UPDATE_TIMEOUT)]
                /\ UNCHANGED <<s_ccount_div, s_ccount_mul>>
           ELSE \* lines 394-395
                /\ s_ccount_mul' = 0
                /\ s_ccount_div' = 0
                /\ fr' = [fr EXCEPT ![<<c, k>>].pc =
                             IF switch_down(f.new_freq, f.old_freq)
                             THEN "hw_set" ELSE "ds_fin"]
                /\ UNCHANGED aborted
        /\ UNCHANGED <<timer_vars, api, timer, idle_key>>
        /\ UNCHANGED <<arbiter_vars, switch_vars, table_vars,
                       s_need_update_ccompare, xint, hook_vars, crit,
                       cpu_freq, ops, hist>>

\* lines 451-461: rtc_clk_cpu_freq_set_config_fast(&new_config)
HwSet(c, k) ==
    LET f == fr[<<c, k>>]
    IN  /\ At(c, k, "hw_set")
        /\ cpu_freq' = f.new_freq
        /\ fr' = [fr EXCEPT ![<<c, k>>] =
                     [f EXCEPT !.pc = IF switch_down(f.new_freq, f.old_freq)
                                      THEN "ds_fin" ELSE "ofu_publish",
                               !.done = Append(f.done,
                                   "rtc_clk_cpu_freq_set_config_fast")]]
        /\ UNCHANGED <<timer_vars, api, timer, idle_key>>
        /\ UNCHANGED <<arbiter_vars, switch_vars, table_vars, ccompare_vars,
                       hook_vars, crit, aborted, ops, hist>>

\* lines 468-472
DsFin(c, k) ==
    LET f == fr[<<c, k>>]
    IN  /\ At(c, k, "ds_fin")
        /\ CanEnter(crit, c)
        /\ crit' = EXIT_CRITICAL(ENTER_CRITICAL(crit, c), c)
        /\ s_mode' = f.new_mode
        /\ s_is_switching' = FALSE
        /\ fr' = [fr EXCEPT ![<<c, k>>] = Return(f)]
        /\ UNCHANGED <<timer_vars, api, timer, idle_key>>
        /\ UNCHANGED <<arbiter_vars, s_config_changed, table_vars,
                       ccompare_vars, hook_vars, cpu_freq, aborted, ops,
                       hist>>

----------------------------------------------------------------------------
(* IdleISRProtocol, lines 504-512 and 629-665 *)

\* esp_pm_lock_release / esp_pm_lock_acquire on s_rtos_lock_handle[c], a
\* CPU_FREQ_MAX lock: the release feeds UNLOCK, the acquire feeds LOCK into
\* esp_pm_impl_switch_mode; rtos_count[c] counts what CPU c contributes.
esp_pm_lock_release(c) == [rtos_count EXCEPT ![c] = @ - 1]
esp_pm_lock_acquire(c) == [rtos_count EXCEPT ![c] = @ + 1]

\* esp_pm_impl_idle_hook, lines 629-636, called by the idle loop of CPU c
\* when the scheduler enters it (pc "ready") and each time it goes round
\* (pc "idle_wait").  When it finds the CPU idle already it goes to line
\* 639 with nothing done (pc "ih_skip").
esp_pm_impl_idle_hook(c) ==
    /\ At(c, "task", "ready") \/ At(c, "task", "idle_wait")
    /\ s_rtos_lock_handle[c]
    /\ ops < MaxOps
    /\ ops' = ops + 1
    /\ CanEnter(crit, c)
    /\ IF ~s_core_idle[c]
       THEN /\ rtos_count' = esp_pm_lock_release(c)
            /\ esp_pm_impl_switch_mode(c, "task", PM_MODE_CPU_MAX, "UNLOCK",
                                       "ih_set", ENTER_CRITICAL(crit, c))
       ELSE /\ crit' = ENTER_CRITICAL(crit, c)
            /\ fr' = [fr EXCEPT ![<<c, "task">>] = Frame("ih_skip")]
            /\ UNCHANGED <<rtos_count, arbiter_vars, hist>>
    /\ idle_key' = [idle_key EXCEPT ![c] = crit.intlevel[c]]
    /\ UNCHANGED <<timer_vars, api, timer>>
    /\ UNCHANGED <<switch_vars, table_vars, ccompare_vars, s_core_idle,
                   s_rtos_lock_handle, cpu_freq, aborted>>

\* An idle hook that leaves s_core_idle[c] as it is.
IhSetSkipped(c) ==
    /\ At(c, "task", "ih_set")
    /\ fr' = [fr EXCEPT ![<<c, "task">>] = Frame("ih_exit")]
    /\ UNCHANGED <<timer_vars, api, timer, idle_key>>
    /\ UNCHANGED <<arbiter_vars, switch_vars, table_vars, ccompare_vars,
                   hook_vars, crit, cpu_freq, aborted, ops, hist>>

\* line 637
IhSet(c) ==
    /\ At(c, "task", "ih_set")
    /\ s_core_idle' = [s_core_idle EXCEPT ![c] = TRUE]
    /\ fr' = [fr EXCEPT ![<<c, "task">>] = Frame("ih_exit")]
    /\ UNCHANGED <<timer_vars, api, timer, idle_key>>
    /\ UNCHANGED <<arbiter_vars, switch_vars, table_vars, ccompare_vars,
                   s_rtos_lock_handle, rtos_count, crit, cpu_freq, aborted,
                   ops, hist>>

\* lines 639-643
IhExit(c) ==
    /\ At(c, "task", "ih_exit") \/ At(c, "task", "ih_skip")
    /\ crit' = EXIT_CRITICAL(crit, c)
    /\ fr' = [fr EXCEPT ![<<c, "task">>] = Frame("idle_wait")]
    /\ UNCHANGED <<timer_vars, api, timer, idle_key>>
    /\ UNCHANGED <<arbiter_vars, switch_vars, table_vars, ccompare_vars,
                   hook_vars, cpu_freq, aborted, ops, hist>>

\* The idle loop unmasks the interrupts and halts the CPU until the next
\* interrupt has been served (IsrReturn).
CpuIdle(c) ==
    /\ At(c, "task", "idle_wait")
    /\ crit' = [crit EXCEPT !.intlevel[c] = "enabled"]
    /\ fr' = [fr EXCEPT ![<<c, "task">>] = Frame("halted")]
    /\ UNCHANGED <<timer_vars, api, timer, idle_key>>
    /\ UNCHANGED <<arbiter_vars, switch_vars, table_vars, ccompare_vars,
                   hook_vars, cpu_freq, aborted, ops, hist>>

\* An interrupt is taken on CPU c (the cross-core frequency-switch
\* interrupt when it is pending, or any other one) and its handler starts
\* with esp_pm_impl_isr_hook, lines 645-662, with leave_idle (lines
\* 504-512) up to its call of esp_pm_lock_acquire.
esp_pm_impl_isr_hook(c) ==
    LET L == ENTER_CRITICAL([crit EXCEPT !.intlevel[c] = "isr"], c)
    IN  /\ ~aborted
        /\ s_rtos_lock_handle[c]
        /\ fr[<<c, "isr">>].pc = "off"
        /\ crit.intlevel[c] = "enabled"
        /\ CanEnter(crit, c)
        /\ \/ /\ xint[c]
              /\ UNCHANGED ops
           \/ /\ ~xint[c]
              /\ ops < MaxOps
              /\ ops' = ops + 1
        /\ xint' = [xint EXCEPT ![c] = FALSE]
        /\ IF s_need_update_ccompare[c]
           THEN \* lines 655-656: update_ccompare(), then clear the flag
                /\ update_ccompare(c, s_ccount_mul, s_ccount_div,
                                   xt_tick_divisor)
                /\ s_need_update_ccompare' =
                       [s_need_update_ccompare EXCEPT ![c] = FALSE]
                /\ crit' = L
                /\ fr' = [fr EXCEPT ![<<c, "isr">>] = Frame("isr_exit")]
                /\ UNCHANGED <<rtos_count, arbiter_vars, hist>>
           ELSE IF s_core_idle[c]
           THEN \* line 509
                /\ rtos_count' = esp_pm_lock_acquire(c)
                /\ esp_pm_impl_switch_mode(c, "isr", PM_MODE_CPU_MAX, "LOCK",
                                           "li_set", L)
                /\ UNCHANGED <<s_need_update_ccompare, ccompare, aborted>>
           ELSE /\ crit' = L
                /\ fr' = [fr EXCEPT ![<<c, "isr">>] = Frame("isr_exit")]
                /\ UNCHANGED <<rtos_count, arbiter_vars, hist,
                               s_need_update_ccompare, ccompare, aborted>>
        /\ UNCHANGED <<xt_tick_divisor, api, timer, idle_key>>
        /\ UNCHANGED <<switch_vars, table_vars, s_ccount_div, s_ccount_mul,
                       s_core_idle, s_rtos_lock_handle, cpu_freq>>

\* line 510
LiSet(c) ==
    /\ At(c, "isr", "li_set")
    /\ s_core_idle' = [s_core_idle EXCEPT ![c] = FALSE]
    /\ fr' = [fr EXCEPT ![<<c, "isr">>] = Frame("isr_exit")]
    /\ UNCHANGED <<timer_vars, api, timer, idle_key>>
    /\ UNCHANGED <<arbiter_vars, switch_vars, table_vars, ccompare_vars,
                   s_rtos_lock_handle, rtos_count, crit, cpu_freq, aborted,
                   ops, hist>>

\* lines 663-665
IsrExit(c) ==
    /\ At(c, "isr", "isr_exit")
    /\ crit' = EXIT_CRITICAL(crit, c)
    /\ fr' = [fr EXCEPT ![<<c, "isr">>] = Frame("isr_body")]
    /\ UNCHANGED <<timer_vars, api, timer, idle_key>>
    /\ UNCHANGED <<arbiter_vars, switch_vars, table_vars, ccompare_vars,
                   hook_vars, cpu_freq, aborted, ops, hist>>

\* The handler returns: the interrupted context goes on, at the interrupt
\* level it was interrupted at; a halted CPU goes back to its scheduler.
IsrReturn(c) ==
    /\ At(c, "isr", "isr_body")
    /\ crit' = [crit EXCEPT !.intlevel[c] = "enabled"]
    /\ fr' = [fr EXCEPT ![<<c, "isr">>] = Frame("off"),
                        ![<<c, "task">>] =
                            IF @.pc = "halted" THEN Frame("ready") ELSE @]
    /\ UNCHANGED <<timer_vars, api, timer, idle_key>>
    /\ UNCHANGED <<arbiter_vars, switch_vars, table_vars, ccompare_vars,
                   hook_vars, cpu_freq, aborted, ops, hist>>

----------------------------------------------------------------------------
(* Configurator: esp_pm_configure, lines 194-275 *)

\* The validation without the check of the reference-clock divider.
ConfigValidNoDivider(cfg) ==
    /\ ~(cfg.min_freq_mhz > cfg.max_freq_mhz)
    /\ rtc_clk_cpu_freq_mhz_to_config(cfg.min_freq_mhz)
    /\ rtc_clk_cpu_freq_mhz_to_config(cfg.max_freq_mhz)

\* lines 205-224
ConfigValid(cfg) ==
    /\ ~(cfg.min_freq_mhz > cfg.max_freq_mhz)
    /\ rtc_clk_cpu_freq_mhz_to_config(cfg.min_freq_mhz)
    /\ ~(/\ cfg.min_freq_mhz < XTAL_FREQ_MHZ
         /\ MHZ(cfg.min_freq_mhz) \div REF_CLK_FREQ < REF_CLK_DIV_MIN)
    /\ rtc_clk_cpu_freq_mhz_to_config(cfg.max_freq_mhz)

\* The APB_MAX frequency without the final MAX of line 249.
ApbMaxFreqNotRaised(cfg) ==
    IF cfg.max_freq_mhz = 240 THEN 240
    ELSE IF cfg.max_freq_mhz \in {160, 80} THEN 80
    ELSE cfg.max_freq_mhz

\* lines 226-249 (CONFIG_IDF_TARGET_ESP32)
ApbMaxFreq(cfg) ==
    LET apb_max_freq ==
            IF cfg.max_freq_mhz = 240 THEN 240
            ELSE IF cfg.max_freq_mhz \in {160, 80} THEN 80
            ELSE cfg.max_freq_mhz
    IN  MAX(apb_max_freq, cfg.min_freq_mhz)

\* A table whose APB_MIN entry is raised like the APB_MAX entry.
ModeTableMinRaised(cfg) ==
    [m \in Modes |->
        IF m = PM_MODE_CPU_MAX THEN cfg.max_freq_mhz
        ELSE IF m = PM_MODE_APB_MAX THEN ApbMaxFreq(cfg)
        ELSE MAX(cfg.min_freq_mhz, XTAL_FREQ_MHZ)]

\* lines 261-267: the freq_mhz of the configurations written to the table;
\* rtc_clk_cpu_freq_mhz_to_config(mhz, &out) succeeds with out.freq_mhz = mhz.
ModeTable(cfg) ==
    [m \in Modes |->
        IF m = PM_MODE_CPU_MAX THEN cfg.max_freq_mhz
        ELSE IF m = PM_MODE_APB_MAX THEN ApbMaxFreq(cfg)
        ELSE cfg.min_freq_mhz]

\* esp_pm_sleep_configure, lines 178-192, on a SoC without
\* SOC_PM_SUPPORT_CPU_PD: the result of sleep_modem_configure.
esp_pm_sleep_configure(modem_err) == modem_err

\* esp_pm_configure that also puts the mode the new configuration selects
\* into s_mode.
esp_pm_configure_with_mode(c, cfg, modem_err) ==
    /\ At(c, "task", "ready")
    /\ s_rtos_lock_handle[c]
    /\ ops < MaxOps
    /\ ops' = ops + 1
    /\ IF ConfigValid(cfg)
       THEN /\ CanEnter(crit, c)
            /\ crit' = EXIT_CRITICAL(ENTER_CRITICAL(crit, c), c)
            /\ s_cpu_freq_by_mode' = ModeTable(cfg)
            /\ s_light_sleep_en' = cfg.light_sleep_enable
            /\ s_config_changed' = TRUE
            /\ s_mode' = get_lowest_allowed_mode(s_mode_mask,
                                                 cfg.light_sleep_enable)
            /\ hist' = [hist EXCEPT !.cfg_stale = TRUE,
                                    !.cfg_during_switch = @ \/ s_is_switching]
            /\ api' = [fn |-> "esp_pm_configure", config |-> cfg,
                       sleep_called |-> TRUE,
                       sleep |-> esp_pm_sleep_configure(modem_err),
                       ret |-> ESP_OK]
       ELSE /\ UNCHANGED <<table_vars, s_config_changed, crit, hist, s_mode>>
            /\ api' = [fn |-> "esp_pm_configure", config |-> cfg,
                       sleep_called |-> FALSE, sleep |-> ESP_OK,
                       ret |-> ESP_ERR_INVALID_ARG]
    /\ UNCHANGED <<timer_vars, timer, idle_key>>
    /\ UNCHANGED <<arbiter_vars, s_is_switching, ccompare_vars, hook_vars,
                   cpu_freq, aborted, fr>>

\* A task calls esp_pm_configure(cfg), lines 194-275, and
\* sleep_modem_configure returns modem_err if it is reached.  A rejected
\* configuration returns ESP_ERR_INVALID_ARG before anything is written; an
\* accepted one is written to the table, handed to esp_pm_sleep_configure
\* (line 272, the result is dropped) and ESP_OK is returned (line 274).
esp_pm_configure(c, cfg, modem_err) ==
    /\ At(c, "task", "ready")
    /\ s_rtos_lock_handle[c]
    /\ ops < MaxOps
    /\ ops' = ops + 1
    /\ IF ConfigValid(cfg)
       THEN /\ CanEnter(crit, c)
            /\ crit' = EXIT_CRITICAL(ENTER_CRITICAL(crit, c), c)
            /\ s_cpu_freq_by_mode' = ModeTable(cfg)
            /\ s_light_sleep_en' = cfg.light_sleep_enable
            /\ s_config_changed' = TRUE
            /\ hist' = [hist EXCEPT !.cfg_stale = TRUE,
                                    !.cfg_during_switch = @ \/ s_is_switching]
            /\ api' = [fn |-> "esp_pm_configure", config |-> cfg,
                       sleep_called |-> TRUE,
                       sleep |-> esp_pm_sleep_configure(modem_err),
                       ret |-> ESP_OK]
       ELSE /\ UNCHANGED <<table_vars, s_config_changed, crit, hist>>
            /\ api' = [fn |-> "esp_pm_configure", config |-> cfg,
                       sleep_called |-> FALSE, sleep |-> ESP_OK,
                       ret |-> ESP_ERR_INVALID_ARG]
    /\ UNCHANGED <<timer_vars, timer, idle_key>>
    /\ UNCHANGED <<arbiter_vars, s_mode, s_is_switching, ccompare_vars,
                   hook_vars, cpu_freq, aborted, fr>>

\* A task calls esp_pm_get_configuration(vconfig), lines 277-292, with a
\* null pointer or with a pointer to a configuration.
esp_pm_get_configuration(c, vconfig_null) ==
    /\ At(c, "task", "ready")
    /\ s_rtos_lock_handle[c]
    /\ ops < MaxOps
    /\ ops' = ops + 1
    /\ IF vconfig_null
       THEN /\ api' = [fn |-> "esp_pm_get_configuration",
                       config |-> NoConfig, sleep_called |-> FALSE,
                       sleep |-> ESP_OK, ret |-> ESP_ERR_INVALID_ARG]
            /\ UNCHANGED crit
       ELSE /\ CanEnter(crit, c)
            /\ crit' = EXIT_CRITICAL(ENTER_CRITICAL(crit, c), c)
            /\ api' = [fn |-> "esp_pm_get_configuration",
                       config |->
                           [min_freq_mhz |->
                                s_cpu_freq_by_mode[PM_MODE_APB_MIN],
                            max_freq_mhz |->
                                s_cpu_freq_by_mode[PM_MODE_CPU_MAX],
                            light_sleep_enable |-> s_light_sleep_en],
                       sleep_called |-> FALSE, sleep |-> ESP_OK,
                       ret |-> ESP_OK]
    /\ UNCHANGED <<arbiter_vars, switch_vars, table_vars, ccompare_vars,
                   hook_vars, timer_vars, timer, idle_key, cpu_freq,
                   aborted, fr, hist>>

----------------------------------------------------------------------------
(* Start-up *)

\* The static initializers, lines 91-152; the hardware runs at the default
\* frequency.
Boot ==
    /\ s_mode = PM_MODE_CPU_MAX
    /\ s_is_switching = FALSE
    /\ s_mode_lock_counts = [m \in Modes |-> 0]
    /\ s_mode_mask = 0
    /\ s_core_idle = [c \in CPUS |-> FALSE]
    /\ s_rtos_lock_handle = [c \in CPUS |-> FALSE]
    /\ s_cpu_freq_by_mode = [m \in Modes |-> 0]
    /\ s_light_sleep_en = FALSE
    /\ s_config_changed = FALSE
    /\ s_need_update_ccompare = [c \in CPUS |-> FALSE]
    /\ s_ccount_div = 0
    /\ s_ccount_mul = 0
    /\ crit = [s_switch_lock |-> "enabled",
               intlevel |-> [c \in CPUS |-> "enabled"],
               owner |-> {}, depth |-> 0]
    /\ xint = [c \in CPUS |-> FALSE]
    /\ cpu_freq = CONFIG_ESP_DEFAULT_CPU_FREQ_MHZ
    /\ rtos_count = [c \in CPUS |-> 0]
    /\ aborted = FALSE
    /\ fr = [x \in Ctx |-> Frame(IF x[2] = "task" THEN "ready" ELSE "off")]
    /\ ops = 0
    /\ ccompare = [c \in CPUS |-> InitialCcompare]
    /\ xt_tick_divisor = TickDivisor(CONFIG_ESP_DEFAULT_CPU_FREQ_MHZ)
    /\ api = [fn |-> "none", config |-> NoConfig, sleep_called |-> FALSE,
              sleep |-> ESP_OK, ret |-> ESP_OK]
    /\ idle_key = [c \in CPUS |-> "enabled"]
    /\ hist = [underflow |-> FALSE, cfg_stale |-> FALSE, overlap |-> FALSE,
               calls |-> FALSE, cfg_during_switch |-> FALSE]

\* The registers of the timer while update_ccompare on them is not looked
\* at.
TimerIdle == [pc |-> "idle", ccount |-> U32(0), ccompare |-> U32(0),
              reg |-> U32(0), mul |-> 0, div |-> 0, tick_divisor |-> 0]

Init == Boot /\ timer = TimerIdle

\* The configuration esp_pm_impl_init passes to esp_pm_configure when
\* CONFIG_PM_DFS_INIT_AUTO is set, lines 619-623.
DfsInitAuto == [min_freq_mhz |-> XTAL_FREQ_MHZ,
                max_freq_mhz |-> CONFIG_ESP_DEFAULT_CPU_FREQ_MHZ,
                light_sleep_enable |-> FALSE]

\* esp_pm_impl_init, lines 597-626, run once at boot before any other entry
\* point: it creates and acquires the RTOS lock of every CPU (two LOCKs of
\* CPU_MAX, whose do_switch finds the mode unchanged), fills the table with
\* the default frequency and, in a build with CONFIG_PM_DFS_INIT_AUTO
\* (dfs_init_auto), configures the frequency range.
esp_pm_impl_init(dfs_init_auto) ==
    LET c1 == CountAfter(s_mode_lock_counts[PM_MODE_CPU_MAX], "LOCK")
        m1 == MaskAfter(s_mode_mask, PM_MODE_CPU_MAX,
                        s_mode_lock_counts[PM_MODE_CPU_MAX], "LOCK")
        c2 == CountAfter(c1, "LOCK")
        m2 == MaskAfter(m1, PM_MODE_CPU_MAX, c1, "LOCK")
    IN  /\ ~aborted
        /\ \A c \in CPUS : ~s_rtos_lock_handle[c]
        /\ s_rtos_lock_handle' = [c \in CPUS |-> TRUE]
        /\ rtos_count' = [c \in CPUS |-> rtos_count[c] + 1]
        /\ s_mode_lock_counts' =
               [s_mode_lock_counts EXCEPT ![PM_MODE_CPU_MAX] = c2]
        /\ s_mode_mask' = m2
        /\ s_cpu_freq_by_mode' =
               IF dfs_init_auto THEN ModeTable(DfsInitAuto)
               ELSE [m \in Modes |-> CONFIG_ESP_DEFAULT_CPU_FREQ_MHZ]
        /\ s_config_changed' = dfs_init_auto
        /\ UNCHANGED <<timer_vars, api, timer, idle_key>>
        /\ UNCHANGED <<s_mode, s_is_switching, s_light_sleep_en,
                       ccompare_vars, s_core_idle, crit, cpu_freq, aborted,
                       fr, ops, hist>>

----------------------------------------------------------------------------
(* The system *)

Step(c, k) ==
    \/ DsGuard(c, k)
    \/ DsRead(c, k)
    \/ OfuPublish(c, k)
    \/ OfuSpin(c, k)
    \/ HwSet(c, k)
    \/ DsFin(c, k)

Next ==
    \/ \E dfs_init_auto \in BOOLEAN : esp_pm_impl_init(dfs_init_auto)
    \/ \E c \in CPUS, k \in Levels, mode \in esp_pm_impl_get_mode,
          op \in Ops : Notify(c, k, mode, op)
    \/ \E c \in CPUS, k \in Levels : Step(c, k)
    \/ \E c \in CPUS : esp_pm_impl_idle_hook(c)
    \/ \E c \in CPUS : IhSet(c)
    \/ \E c \in CPUS : IhExit(c)
    \/ \E c \in CPUS : CpuIdle(c)
    \/ \E c \in CPUS : esp_pm_impl_isr_hook(c)
    \/ \E c \in CPUS : LiSet(c)
    \/ \E c \in CPUS : IsrExit(c)
    \/ \E c \in CPUS : IsrReturn(c)
    \/ \E c \in CPUS, cfg \in CfgInputs, modem_err \in SleepResults :
          esp_pm_configure(c, cfg, modem_err)
    \/ \E c \in CPUS, vconfig_null \in BOOLEAN :
          esp_pm_get_configuration(c, vconfig_null)

Spec == Init /\ [][Next]_vars

\* Every context goes on running once it is inside a function of the
\* module, the idle loop goes on to halt its CPU, an interrupt handler
\* returns, and a pending cross-core interrupt is taken once the interrupts
\* of its CPU are enabled.  Nothing obliges the application to call an
\* entry point or another interrupt to arrive.
Fairness ==
    /\ \A c \in CPUS, k \in Levels : WF_vars(Step(c, k))
    /\ \A c \in CPUS :
           /\ WF_vars(IhSet(c))
           /\ WF_vars(IhExit(c))
           /\ WF_vars(CpuIdle(c))
           /\ WF_vars(LiSet(c))
           /\ WF_vars(IsrExit(c))
           /\ WF_vars(IsrReturn(c))
           /\ WF_vars(xint[c] /\ esp_pm_impl_isr_hook(c))

SpecFair == Spec /\ Fairness

----------------------------------------------------------------------------
(* The configurator on its own: one task calls esp_pm_configure and        *)
(* esp_pm_get_configuration, one call after the other.                     *)

ConfigureNext ==
    \/ \E dfs_init_auto \in BOOLEAN : esp_pm_impl_init(dfs_init_auto)
    \/ \E cfg \in CfgDomain, modem_err \in SleepResults :
          esp_pm_configure(0, cfg, modem_err)
    \/ \E vconfig_null \in BOOLEAN : esp_pm_get_configuration(0, vconfig_null)

SpecConfigure == Init /\ [][ConfigureNext]_vars

----------------------------------------------------------------------------
(* The arbiter on its own: esp_pm_impl_switch_mode called by one task with *)
(* every mode of pm_mode_t, from every mode mask.                          *)

\* The mode a mask selects, bit by bit.
LowestAllowedByBits(mode_mask, light_sleep_en) ==
    IF HasBit(mode_mask, PM_MODE_CPU_MAX) THEN PM_MODE_CPU_MAX
    ELSE IF HasBit(mode_mask, PM_MODE_APB_MAX) THEN PM_MODE_APB_MAX
    ELSE IF HasBit(mode_mask, PM_MODE_APB_MIN) \/ ~light_sleep_en
         THEN PM_MODE_APB_MIN
    ELSE PM_MODE_LIGHT_SLEEP

\* The states after esp_pm_impl_init and a finished sequence of calls of
\* esp_pm_impl_switch_mode that left the locks of mode_mask held, once
\* each, with light sleep configured on or off.
ArbiterInit ==
    \E mode_mask \in 0 .. (BIT(PM_MODE_COUNT) - 1), light_sleep_en \in BOOLEAN :
        /\ s_mode = LowestAllowedByBits(mode_mask, light_sleep_en)
        /\ s_is_switching = FALSE
        /\ s_mode_lock_counts =
               [m \in Modes |-> IF HasBit(mode_mask, m) THEN 1 ELSE 0]
        /\ s_mode_mask = mode_mask
        /\ s_core_idle = [c \in CPUS |-> FALSE]
        /\ s_rtos_lock_handle = [c \in CPUS |-> TRUE]
        /\ s_cpu_freq_by_mode =
               [m \in Modes |-> CONFIG_ESP_DEFAULT_CPU_FREQ_MHZ]
        /\ s_light_sleep_en = light_sleep_en
        /\ s_config_changed = FALSE
        /\ s_need_update_ccompare = [c \in CPUS |-> FALSE]
        /\ s_ccount_div = 0
        /\ s_ccount_mul = 0
        /\ crit = [s_switch_lock |-> "enabled",
                   intlevel |-> [c \in CPUS |-> "enabled"],
                   owner |-> {}, depth |-> 0]
        /\ xint = [c \in CPUS |-> FALSE]
        /\ cpu_freq = CONFIG_ESP_DEFAULT_CPU_FREQ_MHZ
        /\ rtos_count = [c \in CPUS |-> 1]
        /\ aborted = FALSE
        /\ fr = [x \in Ctx |->
                    Frame(IF x[2] = "task" THEN "ready" ELSE "off")]
        /\ ops = 0
        /\ ccompare = [c \in CPUS |-> InitialCcompare]
        /\ xt_tick_divisor = TickDivisor(CONFIG_ESP_DEFAULT_CPU_FREQ_MHZ)
        /\ api = [fn |-> "none", config |-> NoConfig,
                  sleep_called |-> FALSE, sleep |-> ESP_OK, ret |-> ESP_OK]
        /\ hist = [underflow |-> FALSE, cfg_stale |-> FALSE,
                   overlap |-> FALSE, calls |-> FALSE,
                   cfg_during_switch |-> FALSE]
        /\ timer = TimerIdle
        /\ idle_key = [c \in CPUS |-> "enabled"]

ArbiterNext ==
    \/ \E mode \in Modes, op \in Ops : Notify(0, "task", mode, op)
    \/ DsGuard(0, "task")
    \/ DsRead(0, "task")
    \/ DsFin(0, "task")

SpecArbiter == ArbiterInit /\ [][ArbiterNext]_vars

----------------------------------------------------------------------------
(* The mode table under reconfiguration: tasks of both CPUs call           *)
(* esp_pm_impl_switch_mode and esp_pm_configure with configurations that   *)
(* change every entry of the table, also while a do_switch is under way.   *)

\* Accepted configurations with different tables: the entries of APB_MAX
\* and CPU_MAX equal (maximum 240 or 80) or different (maximum 160).
TableCfgs == [min_freq_mhz : {40, 80}, max_freq_mhz : {80, 160, 240},
              light_sleep_enable : {FALSE}]

TableNext ==
    \/ \E dfs_init_auto \in BOOLEAN : esp_pm_impl_init(dfs_init_auto)
    \/ \E c \in CPUS, mode \in esp_pm_impl_get_mode, op \in Ops :
          Notify(c, "task", mode, op)
    \/ \E c \in CPUS : Step(c, "task")
    \/ \E c \in CPUS : xint[c] /\ esp_pm_impl_isr_hook(c)
    \/ \E c \in CPUS : IsrExit(c)
    \/ \E c \in CPUS : IsrReturn(c)
    \/ \E c \in CPUS, cfg \in TableCfgs : esp_pm_configure(c, cfg, ESP_OK)

SpecTable == Init /\ [][TableNext]_vars

----------------------------------------------------------------------------
(* update_ccompare on its own: one call on 32-bit registers, for every  *)
(* switch between two frequencies of the mode table.                    *)

\* The CPU frequencies (ticks per microsecond) a mode table can hold.
RescaleFreqs == {10, 40, 80, 160, 240}
\* CCOUNT when update_ccompare reads it: at zero, in the middle of its
\* range, and close to the wrap of either half.
RescaleCcounts == {<<0, 0>>, <<0, 65000>>, <<32767, 65535>>, <<65535, 64536>>}
\* CCOMPARE - CCOUNT when update_ccompare reads it: behind or at CCOUNT,
\* around CCOMPARE_MIN_CYCLES_IN_FUTURE, within a tick period of each
\* frequency, tick periods ahead, and around half the range.
RescaleDiffs ==
    {<<0, 0>>, <<0, 1>>, <<0, 999>>, <<0, 1000>>, <<0, 1001>>, <<0, 1003>>,
     <<0, 3999>>, <<0, 4000>>, <<0, 7999>>, <<0, 16000>>, <<0, 23999>>,
     <<0, 24000>>, <<1, 0>>, <<273, 4370>>, <<4096, 0>>, <<6553, 39322>>,
     <<32768, 998>>, <<32768, 999>>, <<32768, 1000>>, <<65535, 65535>>}

RescaleInit ==
    /\ Boot
    /\ \E ccount \in RescaleCcounts, diff \in RescaleDiffs,
          old_ticks_per_us \in RescaleFreqs, ticks_per_us \in RescaleFreqs :
          /\ old_ticks_per_us # ticks_per_us
          /\ timer = [pc |-> "call", ccount |-> ccount,
                      ccompare |-> u32_add(ccount, diff),
                      reg |-> u32_add(ccount, diff),
                      mul |-> ticks_per_us, div |-> old_ticks_per_us,
                      tick_divisor |-> TickDivisor(ticks_per_us)]

RescaleNext == RunUpdateCcompare

SpecRescale == RescaleInit /\ [][RescaleNext]_vars

----------------------------------------------------------------------------
(* Properties *)

\* Every call has returned and no switch is in progress.
Quiescent ==
    /\ ~aborted
    /\ ~s_is_switching
    /\ \A x \in Ctx : fr[x].pc \in RestPcs

\* Inside a SWITCH_LOCK critical section.
InCritical == crit.depth > 0

\* C1: once every notify call has returned and no switch is in progress,
\* after notify calls none of which was an underflowing UNLOCK and with no
\* configure since the last mode decision, the current mode is
\* get_lowest_allowed_mode(mode_mask, light_sleep_en).
C1_QuiescentModeIsLowestAllowed ==
    (Quiescent /\ hist.calls /\ ~hist.underflow /\ ~hist.cfg_stale)
        => s_mode = get_lowest_allowed_mode(s_mode_mask, s_light_sleep_en)

\* C1: the system has quiesced after overlapping notify calls.
C1_QuiescedAfterOverlap ==
    Quiescent /\ hist.calls /\ hist.overlap /\ ~hist.underflow
        /\ ~hist.cfg_stale

\* An interrupt handler of CPU c is in the re-entry guard loop of do_switch
\* while the task it interrupted is inside the clock-mutating block.
NestedSwitch(c) ==
    /\ fr[<<c, "isr">>].pc = "ds_guard"
    /\ fr[<<c, "task">>].pc \in BlockPcs

\* C2: a do_switch nested in an interrupt handler returns: while it waits
\* in the re-entry guard loop for s_is_switching to be cleared, the context
\* that has to clear it can run, which the interrupted task of the same
\* CPU cannot before the handler returns.
C2_NestedSwitchCanReturn ==
    \A c \in CPUS :
        (~aborted /\ s_is_switching /\ fr[<<c, "isr">>].pc = "ds_guard")
            => fr[<<c, "task">>].pc \notin BlockPcs

\* C2: an interrupt handler issued a notify that needs a switch while the
\* task of its CPU was in the middle of do_switch.
C2_NestedSwitchStarted == \E c \in CPUS : ~aborted /\ NestedSwitch(c)

\* Once an interrupt handler is in the guard loop above the switch it
\* interrupted, it stays there: no step of the system gets it out.
NestedSwitchIsATrap ==
    [][\A c \in CPUS :
         (~aborted /\ NestedSwitch(c)) => (aborted' \/ NestedSwitch(c)')]_vars

\* C3: at most one context is inside the clock-mutating block of
\* do_switch (between s_is_switching = true and its reset), and
\* s_is_switching is true while one is.
C3_OneSwitcherAtATime ==
    LET inside == {x \in Ctx : fr[x].pc \in BlockPcs}
    IN  /\ Cardinality(inside) <= 1
        /\ inside # {} => s_is_switching

\* C3: one context is inside the block while a context of the other CPU is
\* at the re-entry guard with a target that differs from the current mode.
C3_GuardContended ==
    \E x \in Ctx, y \in Ctx :
        /\ ~aborted
        /\ x[1] # y[1]
        /\ fr[x].pc \in BlockPcs
        /\ fr[y].pc = "ds_guard"
        /\ fr[y].new_mode # s_mode

\* C4: outside a critical section, bit i of the mode mask is set if and
\* only if the lock count of mode i is above zero, for every mode i.
C4_MaskBitIffCountPositive ==
    ~InCritical =>
        \A i \in Modes : HasBit(s_mode_mask, i) <=> s_mode_lock_counts[i] > 0

\* C4: counts above zero and zero counts next to each other, outside a
\* critical section, after notify calls.
C4_MixedCounts ==
    /\ ~InCritical
    /\ hist.calls
    /\ \E i \in Modes, j \in Modes :
           s_mode_lock_counts[i] > 0 /\ s_mode_lock_counts[j] = 0

\* C5: the step in which an UNLOCK of a mode with a zero count is notified
\* aborts the system and leaves the lock counts and the mode mask as they
\* were.
C5_UnderflowIsFatal ==
    [][(~hist.underflow /\ hist.underflow') =>
           /\ aborted'
           /\ s_mode_lock_counts' = s_mode_lock_counts
           /\ s_mode_mask' = s_mode_mask]_vars

\* C5: an UNLOCK of a mode with a zero count has been notified.
C5_UnderflowNotified == hist.underflow

\* C8: outside a critical section, get_lowest_allowed_mode is CPU_MAX if
\* and only if the lock count of CPU_MAX is above zero.
C8_CpuMaxIffCounted ==
    ~InCritical =>
        (get_lowest_allowed_mode(s_mode_mask, s_light_sleep_en)
             = PM_MODE_CPU_MAX
         <=> s_mode_lock_counts[PM_MODE_CPU_MAX] > 0)

\* C8: the lock count of CPU_MAX came down to zero and went up again.
C8_CpuMaxDroppedAndRaised ==
    /\ ~InCritical
    /\ s_mode /= PM_MODE_CPU_MAX
    /\ s_mode_lock_counts[PM_MODE_CPU_MAX] > 0

\* Invariant A and the CPU_MAX equivalence, as long as no UNLOCK of a mode
\* with a zero count was notified.
MaskMatchesCountsWithoutUnderflow ==
    ~hist.underflow =>
        /\ \A i \in Modes :
               HasBit(s_mode_mask, i) <=> s_mode_lock_counts[i] > 0
        /\ get_lowest_allowed_mode(s_mode_mask, s_light_sleep_en)
               = PM_MODE_CPU_MAX
           <=> s_mode_lock_counts[PM_MODE_CPU_MAX] > 0

\* C6: the rendezvous of on_freq_update.  A poll that finds the other
\* CPU's flag cleared leaves the loop without an abort and goes on with
\* the switch, whose end sets s_mode to the new mode and clears
\* s_is_switching; a poll that finds it set counts, and the one that brings
\* the count to CCOMPARE_UPDATE_TIMEOUT aborts: no context polls, or takes
\* any other step, with the count at the timeout.
C6_Rendezvous ==
    /\ [](\A x \in Ctx :
            (fr[x].pc = "ofu_spin"
                 /\ fr[x].timeout >= CCOMPARE_UPDATE_TIMEOUT) => aborted)
    /\ [][/\ ~aborted
          /\ \A x \in Ctx :
               /\ (fr[x].pc = "ofu_spin" /\ fr'[x] # fr[x]) =>
                      IF s_need_update_ccompare[Other(x[1])]
                      THEN /\ fr'[x].pc = "ofu_spin"
                           /\ fr'[x].timeout = fr[x].timeout + 1
                           /\ aborted' <=>
                                  fr'[x].timeout = CCOMPARE_UPDATE_TIMEOUT
                      ELSE /\ fr'[x].pc \in {"hw_set", "ds_fin"}
                           /\ ~aborted'
               /\ (fr[x].pc = "ds_fin" /\ fr'[x] # fr[x]) =>
                      /\ fr'[x].pc \in RestPcs \cup {"ih_set", "li_set"}
                      /\ s_mode' = fr[x].new_mode
                      /\ ~s_is_switching']_vars

\* C6: the other CPU cleared its flag after CCOMPARE_UPDATE_TIMEOUT - 1
\* polls had found it set, and the driving CPU is at the end of its switch.
C6_ClearedAtLastPoll ==
    \E x \in Ctx :
        /\ ~aborted
        /\ fr[x].pc = "ds_fin"
        /\ fr[x].timeout = CCOMPARE_UPDATE_TIMEOUT - 1
        /\ ~s_need_update_ccompare[Other(x[1])]

\* The rendezvous as far as it does not rest on the assertion: a poll that
\* finds the flag cleared leaves the loop without an abort, the end of
\* do_switch sets s_mode to the new mode and clears s_is_switching, no poll
\* aborts before the count is at the timeout, and nothing else aborts.
RendezvousWithoutTheAssertion ==
    [][/\ ~aborted
       /\ aborted' =>
              \E x \in Ctx :
                  /\ fr[x].pc = "ofu_spin"
                  /\ s_need_update_ccompare[Other(x[1])]
                  /\ fr[x].timeout + 1 = CCOMPARE_UPDATE_TIMEOUT
       /\ \A x \in Ctx :
            /\ (fr[x].pc = "ofu_spin" /\ fr'[x] # fr[x]
                    /\ ~s_need_update_ccompare[Other(x[1])]) =>
                   /\ fr'[x].pc \in {"hw_set", "ds_fin"}
                   /\ ~aborted'
            /\ (fr[x].pc = "ds_fin" /\ fr'[x] # fr[x]) =>
                   /\ fr'[x].pc \in RestPcs \cup {"ih_set", "li_set"}
                   /\ s_mode' = fr[x].new_mode
                   /\ ~s_is_switching']_vars

\* C7: when every call of a sequence of notify calls, one after the other
\* and none an UNLOCK of a zero count, has returned and every lock count is
\* zero, the mode mask is zero and the mode is LIGHT_SLEEP if light sleep
\* is enabled and APB_MIN if it is not.
C7_BalancedSequenceEndsIdle ==
    (/\ Quiescent
     /\ hist.calls /\ ~hist.overlap /\ ~hist.underflow /\ ~hist.cfg_stale
     /\ \A m \in Modes : s_mode_lock_counts[m] = 0)
        => /\ s_mode_mask = 0
           /\ s_mode = IF s_light_sleep_en THEN PM_MODE_LIGHT_SLEEP
                       ELSE PM_MODE_APB_MIN

\* C7: a sequence of notify calls, one after the other, has brought every
\* lock count back to zero with light sleep enabled.
C7_AllReleasedWithLightSleep ==
    /\ Quiescent
    /\ hist.calls /\ ~hist.overlap /\ ~hist.underflow /\ ~hist.cfg_stale
    /\ \A m \in Modes : s_mode_lock_counts[m] = 0
    /\ s_light_sleep_en

\* C9: get_lowest_allowed_mode selects CPU_MAX if its bit is set, else
\* APB_MAX if its bit is set, else APB_MIN if its bit is set or light sleep
\* is disabled, else LIGHT_SLEEP, on the mask and in the call that used it;
\* it never selects LIGHT_SLEEP while light sleep is disabled.
C9_LowestAllowedMode ==
    LET lowest == get_lowest_allowed_mode(s_mode_mask, s_light_sleep_en)
    IN  /\ lowest = LowestAllowedByBits(s_mode_mask, s_light_sleep_en)
        /\ ~s_light_sleep_en => lowest # PM_MODE_LIGHT_SLEEP
        /\ \A x \in Ctx :
               fr[x].pc = "ds_guard" =>
                   /\ fr[x].new_mode =
                          LowestAllowedByBits(s_mode_mask, s_light_sleep_en)
                   /\ ~s_light_sleep_en =>
                          fr[x].new_mode # PM_MODE_LIGHT_SLEEP

\* C9: the arbiter selected a mode for a mask that is exactly one mode's
\* bit, in a call that changed the mask.
C9_SelectedOnSingleBit ==
    \E x \in Ctx, m \in Modes :
        /\ fr[x].pc = "ds_guard"
        /\ s_mode_mask = BIT(m)
        /\ m > PM_MODE_LIGHT_SLEEP
        /\ fr[x].new_mode = m

\* CPU c is inside esp_pm_impl_idle_hook or esp_pm_impl_isr_hook.
InHook(c) ==
    \/ fr[<<c, "task">>].pc \in {"ih_set", "ih_exit", "ih_skip"}
    \/ fr[<<c, "task">>].ret = "ih_set"
    \/ fr[<<c, "isr">>].pc \in {"li_set", "isr_exit"}
    \/ fr[<<c, "isr">>].ret = "li_set"

\* C10: after esp_pm_impl_init, CPU c holds its RTOS lock zero times or
\* once, and outside the hooks it holds it exactly when s_core_idle[c] is
\* false.
C10_RtosLockHeldIffNotIdle ==
    \A c \in CPUS :
        s_rtos_lock_handle[c] =>
            /\ rtos_count[c] \in {0, 1}
            /\ ~InHook(c) => (rtos_count[c] = 1 <=> ~s_core_idle[c])

\* C10: the idle hook of a CPU ran again while the CPU was idle already.
C10_IdleHookRepeated ==
    \E c \in CPUS :
        /\ ~aborted
        /\ fr[<<c, "task">>].pc = "ih_skip"
        /\ s_core_idle[c]
        /\ rtos_count[c] = 0

\* The last call was esp_pm_configure.
Configured == api.fn = "esp_pm_configure"

\* C11: when esp_pm_sleep_configure fails in a call of esp_pm_configure,
\* esp_pm_configure returns that error; it returns ESP_OK only when
\* esp_pm_sleep_configure was called and returned ESP_OK.
C11_SleepErrorIsReturned ==
    Configured =>
        /\ (api.sleep_called /\ api.sleep # ESP_OK) => api.ret = api.sleep
        /\ api.ret = ESP_OK => (api.sleep_called /\ api.sleep = ESP_OK)

\* C11: esp_pm_sleep_configure failed in a call of esp_pm_configure with a
\* configuration that passed the validation.
C11_SleepConfigureFailed ==
    Configured /\ api.sleep_called /\ api.sleep = ESP_ERR_NO_MEM

\* The configurations the contract rejects: min above max, a min or a max
\* the clock driver cannot produce, or a min below the crystal frequency
\* whose reference-clock divider is below REF_CLK_DIV_MIN.
Rejected(cfg) ==
    \/ cfg.min_freq_mhz > cfg.max_freq_mhz
    \/ ~rtc_clk_cpu_freq_mhz_to_config(cfg.min_freq_mhz)
    \/ ~rtc_clk_cpu_freq_mhz_to_config(cfg.max_freq_mhz)
    \/ /\ cfg.min_freq_mhz < XTAL_FREQ_MHZ
       /\ (cfg.min_freq_mhz * 1000000) \div REF_CLK_FREQ < REF_CLK_DIV_MIN

\* C12: a call of esp_pm_configure with a configuration the contract
\* rejects returns ESP_ERR_INVALID_ARG and leaves the mode table,
\* s_light_sleep_en and s_config_changed as they were before the call.
C12_RejectedConfigureChangesNothing ==
    [][(ops' # ops /\ Configured' /\ Rejected(api'.config)) =>
           /\ api'.ret = ESP_ERR_INVALID_ARG
           /\ s_cpu_freq_by_mode' = s_cpu_freq_by_mode
           /\ s_light_sleep_en' = s_light_sleep_en
           /\ s_config_changed' = s_config_changed]_vars

\* C12: a configuration with a min below the crystal frequency and a
\* reference-clock divider below REF_CLK_DIV_MIN, and no other fault, was
\* rejected after another one had been accepted with light sleep enabled.
C12_DividerRejectedAfterAccepted ==
    /\ Configured
    /\ api.ret = ESP_ERR_INVALID_ARG
    /\ api.config.min_freq_mhz < REF_CLK_DIV_MIN
    /\ api.config.min_freq_mhz <= api.config.max_freq_mhz
    /\ rtc_clk_cpu_freq_mhz_to_config(api.config.min_freq_mhz)
    /\ rtc_clk_cpu_freq_mhz_to_config(api.config.max_freq_mhz)
    /\ ~api.config.light_sleep_enable
    /\ s_light_sleep_en
    /\ s_cpu_freq_by_mode[PM_MODE_CPU_MAX] # api.config.max_freq_mhz

\* C13: esp_pm_get_configuration called right after a call of
\* esp_pm_configure that accepted cfg returns ESP_OK and writes cfg: the
\* same min_freq_mhz, max_freq_mhz and light_sleep_enable.
C13_ConfigureGetRoundTrip ==
    [][(/\ Configured /\ api.ret = ESP_OK
        /\ ops' # ops
        /\ api'.fn = "esp_pm_get_configuration"
        /\ api'.ret = ESP_OK) => api'.config = api.config]_vars

\* C13: esp_pm_get_configuration has returned a configuration whose min is
\* below its APB_MAX frequency and whose max is not the default frequency,
\* with light sleep enabled.
C13_ReadBackNonDefault ==
    /\ api.fn = "esp_pm_get_configuration"
    /\ api.ret = ESP_OK
    /\ api.config.light_sleep_enable
    /\ api.config.min_freq_mhz < s_cpu_freq_by_mode[PM_MODE_APB_MAX]
    /\ api.config.max_freq_mhz # CONFIG_ESP_DEFAULT_CPU_FREQ_MHZ
    /\ s_config_changed

\* C14: a step that clears s_need_update_ccompare[c] rescales the CCOMPARE
\* of CPU c with the published s_ccount_mul / s_ccount_div: the flag is not
\* cleared with the register left as it was when the rescale would have
\* changed it.
C14_RescaleBeforeClear ==
    [][\A c \in CPUS :
         (s_need_update_ccompare[c] /\ ~s_need_update_ccompare'[c]) =>
             /\ s_ccount_div # 0
             /\ ccompare'[c] = new_ccompare(ccompare[c], s_ccount_mul,
                                            s_ccount_div, xt_tick_divisor)]_vars

\* C14: the re-entry guard loop of a task cleared the flag of its CPU while
\* the cross-core interrupt is still pending there; the driving CPU has
\* rescaled its CCOMPARE, this CPU has not.
C14_ClearedInGuardLoop ==
    \E c \in CPUS :
        /\ ~aborted
        /\ fr[<<c, "task">>].pc = "ds_guard"
        /\ fr[<<c, "isr">>].pc = "off"
        /\ s_is_switching
        /\ ~s_need_update_ccompare[c]
        /\ xint[c]
        /\ ccompare[c] = InitialCcompare
        /\ ccompare[Other(c)] # InitialCcompare

\* C15: inside do_switch, on_freq_update and
\* rtc_clk_cpu_freq_set_config_fast are called in the order the direction
\* gives, each once: on_freq_update first when the new frequency is below
\* the old one, rtc_clk_cpu_freq_set_config_fast first when it is above,
\* and neither when the two are equal; the hardware runs at the new
\* frequency once rtc_clk_cpu_freq_set_config_fast has been called.
C15_CompensationOrderedByDirection ==
    \A x \in Ctx :
        LET f == fr[x]
            down == f.new_freq < f.old_freq
            ofu == "on_freq_update"
            hw == "rtc_clk_cpu_freq_set_config_fast"
        IN  /\ f.pc = "ofu_publish" =>
                   /\ f.new_freq # f.old_freq
                   /\ f.done = IF down THEN <<>> ELSE <<hw>>
            /\ f.pc = "ofu_spin" =>
                   /\ f.new_freq # f.old_freq
                   /\ f.done = IF down THEN <<ofu>> ELSE <<hw, ofu>>
            /\ f.pc = "hw_set" =>
                   /\ f.new_freq # f.old_freq
                   /\ f.done = IF down THEN <<ofu>> ELSE <<>>
            /\ f.pc = "ds_fin" =>
                   f.done = IF f.new_freq = f.old_freq THEN <<>>
                            ELSE IF down THEN <<ofu, hw>>
                            ELSE <<hw, ofu>>
            /\ f.pc \notin BlockPcs \/ f.pc = "ds_read" => f.done = <<>>
            /\ (\E i \in 1 .. Len(f.done) : f.done[i] = hw) =>
                   cpu_freq = f.new_freq

\* C15: a switch to a higher frequency is at its end, after a switch to a
\* lower one.
C15_SwitchedUpAfterDown ==
    \E x \in Ctx :
        /\ ~aborted
        /\ fr[x].pc = "ds_fin"
        /\ fr[x].new_freq > fr[x].old_freq
        /\ fr[x].old_freq < CONFIG_ESP_DEFAULT_CPU_FREQ_MHZ
        /\ Len(fr[x].done) = 2

\* C16: a CPU that polls s_need_update_ccompare of the other CPU in
\* on_freq_update is outside every SWITCH_LOCK critical section: it does
\* not hold the lock and its interrupts are not masked by it.
C16_SpinOutsideSwitchLock ==
    \A x \in Ctx :
        (~aborted /\ fr[x].pc = "ofu_spin") =>
            /\ crit.owner # {x[1]}
            /\ crit.intlevel[x[1]] # "locked"

\* C16: a do_switch reached from the idle hook or the ISR hook polls the
\* flag of the other CPU.
C16_SpinFromHook ==
    \E x \in Ctx :
        /\ ~aborted
        /\ fr[x].pc = "ofu_spin"
        /\ fr[x].ret \in {"ih_set", "li_set"}

\* Context <<c, k>> is in the re-entry guard loop of do_switch while a
\* context of the other CPU drives a switch and waits in on_freq_update
\* for CPU c to clear its flag.
GuardSpin(c, k) ==
    /\ fr[<<c, k>>].pc = "ds_guard"
    /\ s_is_switching
    /\ s_need_update_ccompare[c]
    /\ \E j \in Levels : fr[<<Other(c), j>>].pc = "ofu_spin"

\* C17: a context that is in the re-entry guard loop while the other CPU
\* drives a switch and has set the flag of this CPU clears the flag, the
\* driving switch completes, and the context leaves the guard loop (to
\* perform or skip its own switch), unless the system aborts.
C17_GuardSpinnerGetsThrough ==
    \A c \in CPUS, k \in Levels :
        GuardSpin(c, k) ~>
            (aborted \/ (~s_is_switching /\ fr[<<c, k>>].pc # "ds_guard"))

\* C17: a context that reached the guard loop from a hook has cleared the
\* flag of its CPU, the driving context of the other CPU has left
\* on_freq_update and is at the end of do_switch, which the lock the hook
\* holds keeps it from taking.
C17_DriverBlockedBySpinner ==
    \E c \in CPUS, k \in Levels, j \in Levels :
        /\ ~aborted
        /\ fr[<<c, k>>].pc = "ds_guard"
        /\ fr[<<c, k>>].ret \in {"ih_set", "li_set"}
        /\ fr[<<Other(c), j>>].pc = "ds_fin"
        /\ Len(fr[<<Other(c), j>>].done) = 2
        /\ s_is_switching
        /\ ~s_need_update_ccompare[c]
        /\ xint[c]
        /\ crit.owner = {c}

\* Once the driving context is at the end of do_switch while a hook of the
\* other CPU spins in the guard loop with the lock held, both stay where
\* they are.
DriverBlockedIsATrap ==
    [][\A c \in CPUS, k \in Levels, j \in Levels :
         (/\ ~aborted
          /\ fr[<<c, k>>].pc = "ds_guard"
          /\ fr[<<c, k>>].ret \in {"ih_set", "li_set"}
          /\ fr[<<Other(c), j>>].pc = "ds_fin"
          /\ s_is_switching
          /\ crit.owner = {c}) =>
             (/\ fr'[<<c, k>>].pc = "ds_guard"
              /\ fr'[<<Other(c), j>>].pc = "ds_fin"
              /\ s_is_switching'
              /\ crit'.owner = {c})]_vars

\* A do_switch runs inside a hook, with the lock of the hook held, or
\* inside an interrupt handler above a do_switch of the same CPU.
SwitchInsideHookOrNested ==
    \/ \E x \in Ctx : fr[x].pc \in SwitchPcs /\ fr[x].ret \in {"ih_set", "li_set"}
    \/ \E c \in CPUS : fr[<<c, "isr">>].pc \in SwitchPcs
                          /\ fr[<<c, "task">>].pc \in SwitchPcs

\* The guard loop as far as the hooks and nested switches are not involved:
\* the spinning context gets through, unless the system aborts.
GuardSpinnerGetsThroughOutsideHooks ==
    \A c \in CPUS, k \in Levels :
        GuardSpin(c, k) ~>
            \/ aborted
            \/ ~s_is_switching /\ fr[<<c, k>>].pc # "ds_guard"
            \/ SwitchInsideHookOrNested

\* The step is update_ccompare in the ISR hook of CPU c.
RescaleInIsrHook(c) ==
    /\ s_need_update_ccompare[c]
    /\ fr[<<c, "isr">>].pc = "off"
    /\ fr'[<<c, "isr">>].pc # "off"

\* The step is on_freq_update of context x up to the rendezvous, with
\* update_ccompare on its CPU.
RescaleInOnFreqUpdate(x) ==
    /\ fr[x].pc = "ofu_publish"
    /\ fr'[x].pc = "ofu_spin"

\* C18: s_ccount_mul and s_ccount_div are zero in every state in which
\* s_is_switching is false, and update_ccompare never runs with a zero
\* s_ccount_div: not in the ISR hook, which reads the published value, and
\* not in on_freq_update, which has just written it.
C18_ScaleSetOnlyWhileSwitching ==
    /\ [](~s_is_switching => (s_ccount_mul = 0 /\ s_ccount_div = 0))
    /\ [][/\ \A c \in CPUS : RescaleInIsrHook(c) => s_ccount_div # 0
          /\ \A x \in Ctx : RescaleInOnFreqUpdate(x) =>
                 (s_is_switching /\ s_ccount_div' # 0)]_vars

\* C18: a switch has ended after both CPUs rescaled their CCOMPARE, the
\* other CPU in its ISR hook.
C18_BothRescaledAndCleared ==
    /\ ~aborted
    /\ ~s_is_switching
    /\ s_ccount_mul = 0
    /\ s_ccount_div = 0
    /\ \A c \in CPUS : ccompare[c] # InitialCcompare

\* The step is a step of CPU c: of one of its two contexts.
CpuStep(c) ==
    \/ \E k \in Levels, mode \in Modes, op \in Ops : Notify(c, k, mode, op)
    \/ \E k \in Levels : Step(c, k)
    \/ esp_pm_impl_idle_hook(c)
    \/ IhSet(c)
    \/ IhExit(c)
    \/ CpuIdle(c)
    \/ esp_pm_impl_isr_hook(c)
    \/ LiSet(c)
    \/ IsrExit(c)
    \/ IsrReturn(c)
    \/ \E cfg \in CfgInputs, modem_err \in SleepResults :
          esp_pm_configure(c, cfg, modem_err)
    \/ \E vconfig_null \in BOOLEAN : esp_pm_get_configuration(c, vconfig_null)

\* C19: s_need_update_ccompare[c] is set only by a step of the other CPU,
\* taken while s_is_switching is true, and cleared only by a step of CPU c.
C19_SetByOtherClearedBySelf ==
    [][\A c \in CPUS :
         /\ (~s_need_update_ccompare[c] /\ s_need_update_ccompare'[c]) =>
                /\ CpuStep(Other(c))
                /\ ~CpuStep(c)
                /\ s_is_switching
                /\ s_is_switching'
         /\ (s_need_update_ccompare[c] /\ ~s_need_update_ccompare'[c]) =>
                /\ CpuStep(c)
                /\ ~CpuStep(Other(c))]_vars

\* C19: the flag of a CPU was set by the driving CPU, which has left the
\* rendezvous, and cleared by the ISR hook of its own CPU, which is about
\* to leave its critical section.
C19_SetAndClearedInIsrHook ==
    \E c \in CPUS, k \in Levels :
        /\ ~aborted
        /\ fr[<<c, "isr">>].pc = "isr_exit"
        /\ ~s_need_update_ccompare[c]
        /\ ccompare[c] # InitialCcompare
        /\ fr[<<Other(c), k>>].pc = "ofu_spin"

\* C20: a call of esp_pm_impl_switch_mode after esp_pm_impl_init changes
\* the count of its mode by one (in size_t) and no other count.  Unless the
\* count goes from 0 to 1 by a LOCK or from 1 to 0 by an UNLOCK, it leaves
\* s_mode_mask, s_mode, s_is_switching, s_config_changed and the hardware
\* frequency as they were and does not enter do_switch; on such a
\* transition it sets or clears the bit of the mode and enters do_switch.
C20_OnlyCountTransitionsSwitch ==
    [][\A m \in Modes :
         (/\ \A c \in CPUS : s_rtos_lock_handle[c]
          /\ s_mode_lock_counts'[m] # s_mode_lock_counts[m]) =>
             LET count == s_mode_lock_counts[m]
                 lock == s_mode_lock_counts'[m] = (count + 1) % SIZE_T_RANGE
                 unlock == s_mode_lock_counts'[m] = (count - 1) % SIZE_T_RANGE
                 transition == (lock /\ count = 0) \/ (unlock /\ count = 1)
                 entered == \E x \in Ctx : /\ fr[x].pc # "ds_guard"
                                           /\ fr'[x].pc = "ds_guard"
             IN  /\ lock \/ unlock
                 /\ \A n \in Modes \ {m} :
                        s_mode_lock_counts'[n] = s_mode_lock_counts[n]
                 /\ s_mode' = s_mode
                 /\ s_is_switching' = s_is_switching
                 /\ s_config_changed' = s_config_changed
                 /\ cpu_freq' = cpu_freq
                 /\ ~transition => (s_mode_mask' = s_mode_mask /\ ~entered)
                 /\ transition =>
                        /\ entered
                        /\ s_mode_mask' = IF lock THEN SetBit(s_mode_mask, m)
                                          ELSE ClearBit(s_mode_mask, m)]_vars

\* C20: a mode other than CPU_MAX was locked twice by calls that have
\* returned: the second LOCK found the count positive.
C20_LockedTwice ==
    /\ Quiescent
    /\ hist.calls
    /\ ~hist.underflow
    /\ \E m \in {PM_MODE_APB_MIN, PM_MODE_APB_MAX} :
           /\ s_mode_lock_counts[m] = 2
           /\ HasBit(s_mode_mask, m)

----------------------------------------------------------------------------
(* update_ccompare *)

\* The value of a word below 2^31.
U32Value(w) == w[1] * HALF_WORD + w[2]

\* (CMP - MIN_FUTURE) - CCOUNT < 2^31, in 32-bit arithmetic.
RescaleAhead(t) ==
    u32_sub(u32_sub(t.ccompare, U32(CCOMPARE_MIN_CYCLES_IN_FUTURE)),
            t.ccount)[1] < 32768

\* ceil((CMP - CCOUNT) * new_freq / old_freq) is smaller than the tick
\* period: (CMP - CCOUNT) * new_freq <= (period - 1) * old_freq.
RescaleFits(t) ==
    ~u32_lt(U32(((t.tick_divisor - 1) * t.div) \div t.mul),
            u32_sub(t.ccompare, t.ccount))

\* ceil((CMP - CCOUNT) * new_freq / old_freq) where RescaleFits.
RescaleScaled(t) ==
    (U32Value(u32_sub(t.ccompare, t.ccount)) * t.mul + t.div - 1) \div t.div

\* The deadline after the call, RescaleScaled cycles of the new frequency,
\* is within bound cycles of the old frequency of the deadline before it,
\* CMP - CCOUNT cycles of the old frequency: the two in units of
\* 1 / (old_freq * new_freq) microseconds.
RescaleDeadlineWithin(t, bound) ==
    LET before == U32Value(u32_sub(t.ccompare, t.ccount)) * t.mul
        after == RescaleScaled(t) * t.div
    IN  after - before <= bound * t.mul /\ before - after <= bound * t.mul

\* C21: after update_ccompare, CCOMPARE is CCOUNT plus
\* ceil((CMP - CCOUNT) * new_freq / old_freq) if
\* (CMP - MIN_FUTURE) - CCOUNT < 2^31 and that scaled distance is smaller
\* than the tick period, and is then strictly ahead of CCOUNT with a
\* deadline that moved by at most one tick of the old frequency (here by
\* at most a whole tick period counted at the old frequency, the most the
\* words can mean); otherwise CCOMPARE is what it was.
C21_RescaleArithmetic ==
    timer.pc = "done" =>
        IF RescaleAhead(timer) /\ RescaleFits(timer)
        THEN /\ timer.reg = u32_add(timer.ccount, U32(RescaleScaled(timer)))
             /\ RescaleScaled(timer) > 0
             /\ RescaleDeadlineWithin(timer, TickDivisor(timer.div))
        ELSE timer.reg = timer.ccompare

\* C21: update_ccompare has run on a CCOMPARE that is 2^28 cycles ahead of
\* CCOUNT, for a switch from 80 MHz to 240 MHz, and has set CCOMPARE to
\* CCOUNT.
C21_RescaledFarAhead ==
    /\ timer.pc = "done"
    /\ u32_sub(timer.ccompare, timer.ccount) = <<4096, 0>>
    /\ timer.div = 80
    /\ timer.mul = 240
    /\ timer.reg = timer.ccount

\* The tick periods of the frequencies of the mode table.
RescaleTickPeriodMax == TickDivisor(240)

\* update_ccompare where CCOMPARE is at most a tick period of the fastest
\* clock ahead of CCOUNT: the 32-bit product does not wrap, CCOMPARE is as
\* C21 has it, and the deadline moves by less than one cycle of the new
\* frequency.
RescaleWithinTickPeriod ==
    (/\ timer.pc = "done"
     /\ ~u32_lt(U32(RescaleTickPeriodMax),
                u32_sub(timer.ccompare, timer.ccount))) =>
        IF RescaleAhead(timer) /\ RescaleFits(timer)
        THEN /\ timer.reg = u32_add(timer.ccount, U32(RescaleScaled(timer)))
             /\ RescaleScaled(timer) > 0
             /\ RescaleScaled(timer) * timer.div
                    - U32Value(u32_sub(timer.ccompare, timer.ccount))
                          * timer.mul < timer.div
        ELSE timer.reg = timer.ccompare

\* The same with the deadline within one cycle of the old frequency.
RescaleWithinOldCycle ==
    (/\ timer.pc = "done"
     /\ ~u32_lt(U32(RescaleTickPeriodMax),
                u32_sub(timer.ccompare, timer.ccount))
     /\ RescaleAhead(timer)
     /\ RescaleFits(timer)) => RescaleDeadlineWithin(timer, 1)

----------------------------------------------------------------------------
(* Interrupt state across the critical sections *)

\* The step is the return of esp_pm_impl_idle_hook on CPU c (line 639 on).
IdleHookReturns(c) ==
    /\ fr[<<c, "task">>].pc \in {"ih_exit", "ih_skip"}
    /\ fr'[<<c, "task">>].pc = "idle_wait"

\* C22: a critical section on s_switch_lock ends with the interrupt state
\* that was in force when it was entered: when esp_pm_impl_idle_hook
\* returns from a call made with interrupts enabled, the interrupts of its
\* CPU are enabled, whatever was nested in its critical section.
C22_IdleHookRestoresInterrupts ==
    [][\A c \in CPUS :
         (IdleHookReturns(c) /\ idle_key[c] = "enabled")
             => crit'.intlevel[c] = "enabled"]_vars

\* C22: esp_pm_impl_idle_hook, called with interrupts enabled, has
\* released the lock of its CPU through esp_pm_impl_switch_mode and is
\* about to leave its critical section.
C22_IdleHookReleased ==
    \E c \in CPUS :
        /\ ~aborted
        /\ fr[<<c, "task">>].pc = "ih_exit"
        /\ fr[<<c, "isr">>].pc = "off"
        /\ idle_key[c] = "enabled"
        /\ s_core_idle[c]
        /\ rtos_count[c] = 0

\* An idle hook that finds its CPU idle already nests nothing in its
\* critical section, and returns with the interrupt state it was called
\* with.
IdleHookSkipRestoresInterrupts ==
    [][\A c \in CPUS :
         (IdleHookReturns(c) /\ fr[<<c, "task">>].pc = "ih_skip")
             => crit'.intlevel[c] = idle_key[c]]_vars

----------------------------------------------------------------------------
(* The mode table and the hardware *)

\* esp_pm_impl_init has run.
Initialized == \A c \in CPUS : s_rtos_lock_handle[c]

\* C23: once esp_pm_impl_init has run, in every state in which
\* s_is_switching and s_config_changed are false the hardware runs at the
\* frequency the mode table gives for s_mode.
C23_HardwareMatchesTable ==
    (Initialized /\ ~s_is_switching /\ ~s_config_changed)
        => cpu_freq = s_cpu_freq_by_mode[s_mode]

\* C23: esp_pm_configure rewrote the table while a do_switch was between
\* its two critical sections, a later do_switch has taken the change up,
\* and the hardware runs at a frequency of the new table that differs from
\* the one the first do_switch set.
C23_SwitchedAfterReconfigure ==
    /\ Initialized
    /\ Quiescent
    /\ ~s_config_changed
    /\ hist.cfg_during_switch
    /\ s_mode # PM_MODE_CPU_MAX
    /\ cpu_freq \notin {CONFIG_ESP_DEFAULT_CPU_FREQ_MHZ, XTAL_FREQ_MHZ}

\* The step is a call of esp_pm_configure that returns ESP_OK.
ConfigureAccepted ==
    \E c \in CPUS, cfg \in CfgInputs, modem_err \in SleepResults :
        ConfigValid(cfg) /\ esp_pm_configure(c, cfg, modem_err)

\* C24: a call of esp_pm_configure that returns ESP_OK leaves s_mode,
\* s_is_switching, s_mode_lock_counts, s_mode_mask and the hardware
\* frequency as they were and enters no do_switch (no context moves);
\* s_mode changes only at the end of a do_switch, and a do_switch is
\* entered only by a step of esp_pm_impl_switch_mode that changes
\* s_mode_mask.
C24_ConfigureLeavesModeAlone ==
    [][/\ ConfigureAccepted =>
              /\ s_mode' = s_mode
              /\ s_is_switching' = s_is_switching
              /\ s_mode_lock_counts' = s_mode_lock_counts
              /\ s_mode_mask' = s_mode_mask
              /\ cpu_freq' = cpu_freq
              /\ fr' = fr
       /\ s_mode' # s_mode =>
              \E x \in Ctx : fr[x].pc = "ds_fin" /\ fr'[x].pc \notin SwitchPcs
       /\ \A x \in Ctx :
              (fr[x].pc \notin SwitchPcs /\ fr'[x].pc \in SwitchPcs) =>
                  (fr'[x].pc = "ds_guard" /\ s_mode_mask' # s_mode_mask)]_vars

\* C24: esp_pm_configure has enabled light sleep while no lock is held:
\* every call has returned and s_mode is still APB_MIN, not the
\* LIGHT_SLEEP the new configuration selects.
C24_LightSleepNotTakenUp ==
    /\ Quiescent
    /\ Configured
    /\ api.ret = ESP_OK
    /\ s_light_sleep_en
    /\ s_config_changed
    /\ s_mode_mask = 0
    /\ s_mode = PM_MODE_APB_MIN
    /\ get_lowest_allowed_mode(s_mode_mask, s_light_sleep_en)
           = PM_MODE_LIGHT_SLEEP

\* C25: after esp_pm_impl_init and any calls of esp_pm_configure, the
\* LIGHT_SLEEP entry of the mode table equals the APB_MIN entry, and the
\* frequencies do not decrease from APB_MIN to APB_MAX to CPU_MAX.
C25_ModeTableMonotone ==
    Initialized =>
        /\ s_cpu_freq_by_mode[PM_MODE_LIGHT_SLEEP]
               = s_cpu_freq_by_mode[PM_MODE_APB_MIN]
        /\ s_cpu_freq_by_mode[PM_MODE_APB_MIN]
               <= s_cpu_freq_by_mode[PM_MODE_APB_MAX]
        /\ s_cpu_freq_by_mode[PM_MODE_APB_MAX]
               <= s_cpu_freq_by_mode[PM_MODE_CPU_MAX]

\* C25: esp_pm_configure has accepted a minimum of 160 MHz, above the
\* 80 MHz that a maximum of 160 MHz gives APB_MAX before line 249 raises
\* it, in a call that was not the first one.
C25_MinimumAboveApbMax ==
    /\ Initialized
    /\ Configured
    /\ api.ret = ESP_OK
    /\ api.config.min_freq_mhz = 160
    /\ api.config.max_freq_mhz = 160
    /\ s_cpu_freq_by_mode[PM_MODE_APB_MAX] = 160
    /\ ops >= 2

====
